---- MODULE Spec2Model ----
(***************************************************************************)
(* Progressive-collapse simulator: the orchestrating step loop             *)
(* (simulation/runner.py) over solve -> entropy -> detect -> fail ->       *)
(* redistribute.                                                           *)
(*                                                                         *)
(* Numbers.  The program computes in IEEE doubles; the model computes in   *)
(* integers.  Frames are collinear along global X (as frame_2d_simple),    *)
(* loaded along X, so only the axial translation of each node is excited:  *)
(* the model keeps that one degree of freedom per node (the program keeps  *)
(* six, the other five carry no load here).  Entropy is in millinats and   *)
(* energy fractions are in 1/1000, both truncated.                         *)
(***************************************************************************)
EXTENDS Integers, Sequences, FiniteSets, TLC

MaxSteps == 5
MaxMembers == 2

None == <<>>
Some(v) == <<v>>

Abs(v) == IF v < 0 THEN -v ELSE v
Max(a, b) == IF a >= b THEN a ELSE b

\* the element of a one-element set; Only({e(v) : v \in {x}}) computes x
\* once and then e(x), where a LET would recompute x at every use
Only(S) == CHOOSE x \in S : TRUE

SumSeq(s) ==
    Only({LET sum[i \in 0..Len(v)] == IF i = 0 THEN 0 ELSE sum[i - 1] + v[i]
          IN  sum[Len(v)] : v \in {s}})

\* the least element of a non-empty set of integers
MinOf(S) == CHOOSE i \in S : \A j \in S : i <= j

Range(s) == {s[i] : i \in DOMAIN s}

(***************************************************************************)
(* core/models.py                                                          *)
(***************************************************************************)
Material(name, E, A, sigma_y) ==
    [name |-> name, E |-> E, A |-> A, sigma_y |-> sigma_y]

Node(id, x, fixed_dofs) == [id |-> id, x |-> x, fixed_dofs |-> fixed_dofs]

Member(id, node_start, node_end, material, failed) ==
    [id |-> id, node_start |-> node_start, node_end |-> node_end,
     material |-> material, failed |-> failed]

Load(node_id, dof, magnitude) ==
    [node_id |-> node_id, dof |-> dof, magnitude |-> magnitude]

FrameData(name, nodes, members, loads) ==
    [name |-> name, nodes |-> nodes, members |-> members, loads |-> loads]

MemberState(member_id, strain_energy, axial_force, deformation, failed) ==
    [member_id |-> member_id, strain_energy |-> strain_energy,
     axial_force |-> axial_force, deformation |-> deformation,
     failed |-> failed]

EnergyState(step, total_energy, member_states) ==
    [step |-> step, total_energy |-> total_energy,
     member_states |-> member_states]

EntropyRecord(step, entropy, delta_entropy, energy_distribution) ==
    [step |-> step, entropy |-> entropy, delta_entropy |-> delta_entropy,
     energy_distribution |-> energy_distribution]

SimulationResult(frame_name, energy_history, entropy_history, collapse_detected, collapse_step, failed_sequence) ==
    [frame_name |-> frame_name, energy_history |-> energy_history,
     entropy_history |-> entropy_history,
     collapse_detected |-> collapse_detected,
     collapse_step |-> collapse_step, failed_sequence |-> failed_sequence]

(***************************************************************************)
(* structure/stiffness.py                                                  *)
(***************************************************************************)
_get_node(frame, node_id) ==
    frame.nodes[CHOOSE i \in DOMAIN frame.nodes :
                   /\ frame.nodes[i].id = node_id
                   /\ \A j \in 1..(i - 1) : frame.nodes[j].id # node_id]

\* Euclidean length; the frame is collinear along X
_member_length(member, frame) ==
    Abs(_get_node(frame, member.node_end).x
        - _get_node(frame, member.node_start).x)

\* the axial term E*A/L of the local stiffness matrix
_axial_stiffness(member, frame) ==
    (member.material.E * member.material.A) \div _member_length(member, frame)

\* global DOF index of a node's DOF (one DOF per node in the model)
GlobalDof(node_id, dof) == node_id + dof

Dofs(frame) == 0..(Len(frame.nodes) - 1)

\* entry (gi, gj) of T^T k_local T of one member, axial terms only
ElementStiffness(member, frame, gi, gj) ==
    LET s == GlobalDof(member.node_start, 0)
        e == GlobalDof(member.node_end, 0)
        k == _axial_stiffness(member, frame)
    IN  (IF gi = s /\ gj = s THEN k ELSE 0)
      + (IF gi = e /\ gj = e THEN k ELSE 0)
      + (IF gi = s /\ gj = e THEN -k ELSE 0)
      + (IF gi = e /\ gj = s THEN -k ELSE 0)

\* mutant: failed members are assembled as well
assemble_global_stiffness_with_failed(frame) ==
    [gi \in Dofs(frame) |-> [gj \in Dofs(frame) |->
        SumSeq([i \in DOMAIN frame.members |->
            ElementStiffness(frame.members[i], frame, gi, gj)])]]

assemble_global_stiffness(frame) ==
    [gi \in Dofs(frame) |-> [gj \in Dofs(frame) |->
        SumSeq([i \in DOMAIN frame.members |->
            IF frame.members[i].failed THEN 0
            ELSE ElementStiffness(frame.members[i], frame, gi, gj)])]]

FixedDofs(frame) ==
    UNION {{GlobalDof(frame.nodes[i].id, dof) : dof \in frame.nodes[i].fixed_dofs} :
              i \in DOMAIN frame.nodes}

apply_boundary_conditions(K, frame) ==
    [gi \in DOMAIN K |-> [gj \in DOMAIN K |->
        IF gi \in FixedDofs(frame) \/ gj \in FixedDofs(frame)
        THEN (IF gi = gj THEN 1 ELSE 0)
        ELSE K[gi][gj]]]

(***************************************************************************)
(* solver/equilibrium.py                                                   *)
(***************************************************************************)
_build_load_vector(frame, load_factor) ==
    [d \in Dofs(frame) |->
        SumSeq([i \in DOMAIN frame.loads |->
            IF GlobalDof(frame.loads[i].node_id, frame.loads[i].dof) = d
            THEN frame.loads[i].magnitude * load_factor ELSE 0])]

\* mutant: the load vector keeps its entries at the restrained DOFs
apply_boundary_conditions_to_force_skipped(F, frame) == F

apply_boundary_conditions_to_force(F, frame) ==
    [d \in DOMAIN F |-> IF d \in FixedDofs(frame) THEN 0 ELSE F[d]]

\* Ku = F.  In the modelled frames both end nodes are restrained, so the
\* constrained matrix is diagonal; a zero pivot is the singular case, where
\* the least-squares fallback returns the minimum-norm solution (0 there).
_solve_system(K, F) ==
    [d \in DOMAIN F |-> IF K[d][d] = 0 THEN 0 ELSE F[d] \div K[d][d]]

\* mutant: the early return for a failed member is missing
_compute_member_state_unflagged(member, u, frame) ==
    LET us == u[GlobalDof(member.node_start, 0)]
        ue == u[GlobalDof(member.node_end, 0)]
        k  == _axial_stiffness(member, frame)
        f0 == k * us - k * ue
    IN  MemberState(member.id, Max((k * (us - ue) * (us - ue)) \div 2, 0),
                    f0, ue - us, FALSE)

_compute_member_state(member, u, frame) ==
    IF member.failed
    THEN MemberState(member.id, 0, 0, 0, TRUE)
    ELSE LET us == u[GlobalDof(member.node_start, 0)]
             ue == u[GlobalDof(member.node_end, 0)]
             k  == _axial_stiffness(member, frame)
             f0 == k * us - k * ue
             f6 == k * ue - k * us
             strain_energy == (us * f0 + ue * f6) \div 2
             axis == IF _get_node(frame, member.node_end).x
                        >= _get_node(frame, member.node_start).x
                     THEN 1 ELSE -1
         IN  MemberState(member.id, Max(strain_energy, 0), f0,
                         (ue - us) * axis, FALSE)

\* the displacement vector of the constrained system
Displacements(frame) ==
    Only({_solve_system(K, F) :
          K \in {apply_boundary_conditions(K0, frame) :
                    K0 \in {assemble_global_stiffness(frame)}},
          F \in {apply_boundary_conditions_to_force(F0, frame) :
                    F0 \in {_build_load_vector(frame, 1)}}})

\* mutant: the total leaves out the last member
solve_total_skips_last(frame, step) ==
    Only({EnergyState(step,
                      SumSeq([i \in 1..(Len(member_states) - 1) |->
                                 member_states[i].strain_energy]),
                      member_states) :
          member_states \in
              {[i \in DOMAIN frame.members |->
                   _compute_member_state(frame.members[i], u, frame)] :
               u \in {Displacements(frame)}}})

solve(frame, step) ==
    Only({EnergyState(step,
                      SumSeq([i \in DOMAIN member_states |->
                                 member_states[i].strain_energy]),
                      member_states) :
          member_states \in
              {[i \in DOMAIN frame.members |->
                   _compute_member_state(frame.members[i], u, frame)] :
               u \in {Displacements(frame)}}})

(***************************************************************************)
(* entropy/metrics.py                                                      *)
(***************************************************************************)
\* 1000 * ln(n) for n = 1..16
LnTable ==
    <<0, 693, 1099, 1386, 1609, 1792, 1946, 2079,
      2197, 2303, 2398, 2485, 2565, 2639, 2708, 2773>>

RECURSIVE LnMilli(_)
\* 1000 * ln(n), n >= 1: the table, extended by ln(n) ~ ln(n div 2) + ln 2
LnMilli(n) ==
    IF n <= Len(LnTable) THEN LnTable[n] ELSE LnMilli(n \div 2) + LnTable[2]

\* -sum(p_i ln p_i) over the strictly positive p_i; p in 1/1000, S in millinats
_shannon_entropy(p) ==
    SumSeq([i \in DOMAIN p |->
               IF p[i] > 0 THEN p[i] * (LnMilli(1000) - LnMilli(p[i])) ELSE 0])
    \div 1000

IsActiveState(ms) == ~ms.failed

compute(energy_state, previous_entropy) ==
    LET active == SelectSeq(energy_state.member_states, IsActiveState)
        ids == [i \in DOMAIN active |-> active[i].member_id]
        energies == [i \in DOMAIN active |-> active[i].strain_energy]
        total == SumSeq(energies)
    IN  IF active = <<>>
        THEN EntropyRecord(energy_state.step, 0, 0, <<>>)
        ELSE IF total = 0
        THEN EntropyRecord(energy_state.step, 0, 0 - previous_entropy,
                           [i \in DOMAIN ids |-> <<ids[i], 0>>])
        ELSE Only({EntropyRecord(energy_state.step, entropy,
                                 entropy - previous_entropy,
                                 [i \in DOMAIN ids |-> <<ids[i], p[i]>>]) :
                   <<p, entropy>> \in
                       {<<q, _shannon_entropy(q)>> :
                           q \in {[i \in DOMAIN active |->
                                     (energies[i] * 1000) \div total]}}})

(***************************************************************************)
(* entropy/localization.py                                                 *)
(***************************************************************************)
min_history == 5

\* mutant: a record at the threshold flags as well
detect_collapse_threshold_inclusive(history, threshold) ==
    LET hits == {i \in DOMAIN history : history[i].delta_entropy <= threshold}
    IN  IF hits # {}
        THEN [collapsed |-> TRUE, step |-> Some(history[MinOf(hits)].step)]
        ELSE [collapsed |-> FALSE, step |-> None]

\* mutant: the size of the change is compared, whatever its sign
detect_collapse_threshold_magnitude(history, threshold) ==
    LET hits == {i \in DOMAIN history :
                    Abs(history[i].delta_entropy) > Abs(threshold)}
    IN  IF hits # {}
        THEN [collapsed |-> TRUE, step |-> Some(history[MinOf(hits)].step)]
        ELSE [collapsed |-> FALSE, step |-> None]

detect_collapse_threshold(history, threshold) ==
    LET hits == {i \in DOMAIN history : history[i].delta_entropy < threshold}
    IN  IF hits # {}
        THEN [collapsed |-> TRUE, step |-> Some(history[MinOf(hits)].step)]
        ELSE [collapsed |-> FALSE, step |-> None]

\* mutant: z is compared with z_threshold instead of -z_threshold
detect_collapse_zscore_sign(history, z_threshold) ==
    LET n == Len(history)
        deltas == [i \in DOMAIN history |-> history[i].delta_entropy]
        s == SumSeq(deltas)
        q == SumSeq([i \in DOMAIN deltas |-> deltas[i] * deltas[i]])
        v == n * q - s * s
        below(delta) ==
            LET a == n * delta - s
            IN  IF z_threshold >= 0
                THEN a < 0 \/ a * a < z_threshold * z_threshold * v
                ELSE a < 0 /\ a * a > z_threshold * z_threshold * v
        hits == {i \in DOMAIN history : below(history[i].delta_entropy)}
    IN  IF n < min_history THEN [collapsed |-> FALSE, step |-> None]
        ELSE IF v = 0 THEN [collapsed |-> FALSE, step |-> None]
        ELSE IF hits # {}
        THEN [collapsed |-> TRUE, step |-> Some(history[MinOf(hits)].step)]
        ELSE [collapsed |-> FALSE, step |-> None]

\* mutant: the minimum history length is not required
detect_collapse_zscore_early(history, z_threshold) ==
    LET n == Len(history)
        deltas == [i \in DOMAIN history |-> history[i].delta_entropy]
        s == SumSeq(deltas)
        q == SumSeq([i \in DOMAIN deltas |-> deltas[i] * deltas[i]])
        v == n * q - s * s
        below(delta) ==
            LET a == n * delta - s
            IN  IF z_threshold >= 0
                THEN a < 0 /\ a * a > z_threshold * z_threshold * v
                ELSE a <= 0 \/ a * a < z_threshold * z_threshold * v
        hits == {i \in DOMAIN history : below(history[i].delta_entropy)}
    IN  IF v = 0 THEN [collapsed |-> FALSE, step |-> None]
        ELSE IF hits # {}
        THEN [collapsed |-> TRUE, step |-> Some(history[MinOf(hits)].step)]
        ELSE [collapsed |-> FALSE, step |-> None]

\* z = (delta - mean) / std over the whole history, compared without
\* division: with n records, s = sum(delta), q = sum(delta^2),
\* z = (n*delta - s) / sqrt(n*q - s*s)
detect_collapse_zscore(history, z_threshold) ==
    LET n == Len(history)
        deltas == [i \in DOMAIN history |-> history[i].delta_entropy]
        s == SumSeq(deltas)
        q == SumSeq([i \in DOMAIN deltas |-> deltas[i] * deltas[i]])
        v == n * q - s * s
        below(delta) ==
            LET a == n * delta - s
            IN  IF z_threshold >= 0
                THEN a < 0 /\ a * a > z_threshold * z_threshold * v
                ELSE a <= 0 \/ a * a < z_threshold * z_threshold * v
        hits == {i \in DOMAIN history : below(history[i].delta_entropy)}
    IN  IF n < min_history THEN [collapsed |-> FALSE, step |-> None]
        ELSE IF v = 0 THEN [collapsed |-> FALSE, step |-> None]
        ELSE IF hits # {}
        THEN [collapsed |-> TRUE, step |-> Some(history[MinOf(hits)].step)]
        ELSE [collapsed |-> FALSE, step |-> None]

\* np.sort: the value at position i is the one that i - 1 others precede
np_sort(values) ==
    [i \in DOMAIN values |->
        values[CHOOSE k \in DOMAIN values :
                  Cardinality({j \in DOMAIN values :
                                  \/ values[j] < values[k]
                                  \/ values[j] = values[k] /\ j <= k}) = i]]

\* the Gini coefficient in 1/1000, with the two terms of the formula brought
\* to the common denominator n * sum so that no rounding enters before the
\* result
localization_index(record) ==
    IF record.energy_distribution = <<>> THEN 0
    ELSE Only({IF total = 0 THEN 0
               ELSE (1000 * (2 * SumSeq([i \in DOMAIN values |->
                                            i * values[i]])
                             - (Len(values) + 1) * total))
                    \div (Len(values) * total) :
               <<values, total>> \in
                   {<<v, SumSeq(v)>> :
                       v \in {np_sort([i \in DOMAIN record.energy_distribution
                                         |-> record.energy_distribution[i][2]])
                             }}})

(***************************************************************************)
(* solver/failure.py                                                       *)
(***************************************************************************)
_get_member(frame, member_id) ==
    frame.members[CHOOSE i \in DOMAIN frame.members :
                     /\ frame.members[i].id = member_id
                     /\ \A j \in 1..(i - 1) : frame.members[j].id # member_id]

\* mutant: only the bending term, which the axial reduction does not have
_combined_stress_bending_only(member, u, frame) == 0

\* sigma_axial + sigma_bending; the axial reduction has no end moments
_combined_stress(member, u, frame) ==
    LET us == u[GlobalDof(member.node_start, 0)]
        ue == u[GlobalDof(member.node_end, 0)]
        k  == _axial_stiffness(member, frame)
        f0 == k * us - k * ue
    IN  Abs(f0) \div member.material.A

\* mutant: the displacements are solved again for every member visited, on
\* the frame as marked so far
check_and_apply_failures_resolving(frame, energy_state) ==
    LET states == energy_state.member_states
        judged[i \in 0..Len(states)] ==
            IF i = 0 THEN [frame |-> frame, newly_failed |-> <<>>]
            ELSE Only({IF states[i].failed THEN prev
                       ELSE IF _combined_stress(
                                   _get_member(prev.frame, states[i].member_id),
                                   Displacements(prev.frame), prev.frame)
                                  >= _get_member(prev.frame,
                                                 states[i].member_id)
                                        .material.sigma_y
                       THEN [frame |-> [prev.frame EXCEPT !.members =
                                [k \in DOMAIN prev.frame.members |->
                                    IF prev.frame.members[k].id
                                          = states[i].member_id
                                    THEN [prev.frame.members[k]
                                             EXCEPT !.failed = TRUE]
                                    ELSE prev.frame.members[k]]],
                             newly_failed |-> Append(prev.newly_failed,
                                                     states[i].member_id)]
                       ELSE prev : prev \in {judged[i - 1]}})
    IN  judged[Len(states)]

\* mutant: members already failed are judged again
check_and_apply_failures_rechecks(frame, energy_state) ==
    Only({[frame |-> [frame EXCEPT !.members =
                        [i \in DOMAIN frame.members |->
                            IF frame.members[i].id \in Range(newly_failed)
                            THEN [frame.members[i] EXCEPT !.failed = TRUE]
                            ELSE frame.members[i]]],
           newly_failed |-> newly_failed] :
          newly_failed \in
              {LET yields(ms) ==
                       _combined_stress(_get_member(frame, ms.member_id),
                                        u, frame)
                          >= _get_member(frame, ms.member_id).material.sigma_y
                   failing == SelectSeq(energy_state.member_states, yields)
               IN  [i \in DOMAIN failing |-> failing[i].member_id] :
               u \in {Displacements(frame)}}})

check_and_apply_failures(frame, energy_state) ==
    Only({[frame |-> [frame EXCEPT !.members =
                        [i \in DOMAIN frame.members |->
                            IF /\ frame.members[i].id \in Range(newly_failed)
                               /\ \A j \in 1..(i - 1) :
                                     frame.members[j].id # frame.members[i].id
                            THEN [frame.members[i] EXCEPT !.failed = TRUE]
                            ELSE frame.members[i]]],
           newly_failed |-> newly_failed] :
          newly_failed \in
              {LET yields(ms) ==
                       /\ ~ms.failed
                       /\ _combined_stress(_get_member(frame, ms.member_id),
                                           u, frame)
                             >= _get_member(frame, ms.member_id)
                                   .material.sigma_y
                   failing == SelectSeq(energy_state.member_states, yields)
               IN  [i \in DOMAIN failing |-> failing[i].member_id] :
               u \in {Displacements(frame)}}})

\* mutant: an empty member list does not count as all failed
all_failed_nonempty(frame) ==
    /\ frame.members # <<>>
    /\ \A i \in DOMAIN frame.members : frame.members[i].failed

all_failed(frame) == \A i \in DOMAIN frame.members : frame.members[i].failed

(***************************************************************************)
(* solver/redistribution.py                                                *)
(***************************************************************************)
\* mutant: the coupling takes the stiffness of the first member alone
_harmonic_mean_first(a, b) == a

_harmonic_mean(a, b) ==
    IF a = 0 \/ b = 0 THEN 0 ELSE (2 * a * b) \div (a + b)

\* how many times the member is listed at the node (start and end)
AtNode(member, node_id) ==
    (IF member.node_start = node_id THEN 1 ELSE 0)
  + (IF member.node_end = node_id THEN 1 ELSE 0)

_build_coupling_matrix(frame, active_ids) ==
    [i \in DOMAIN active_ids |-> [j \in DOMAIN active_ids |->
        IF active_ids[i] = active_ids[j] THEN 0
        ELSE LET m_i == _get_member(frame, active_ids[i])
                 m_j == _get_member(frame, active_ids[j])
             IN  SumSeq([nd \in DOMAIN frame.nodes |->
                            AtNode(m_i, frame.nodes[nd].id)
                            * AtNode(m_j, frame.nodes[nd].id)])
                 * _harmonic_mean(_axial_stiffness(m_i, frame),
                                  _axial_stiffness(m_j, frame))]]

\* the member states after one explicit-Euler step of the diffusion
RedistributedStates(frame, energy_state, dt) ==
    LET active == SelectSeq(energy_state.member_states, IsActiveState)
        ids == [i \in DOMAIN active |-> active[i].member_id]
        U == [i \in DOMAIN active |-> active[i].strain_energy]
        \* dict(zip(ids, U_new)): a repeated id keeps its last value
        last(member_id) ==
            CHOOSE i \in DOMAIN ids :
                /\ ids[i] = member_id
                /\ \A j \in (i + 1)..Len(ids) : ids[j] # member_id
    IN  Only({[i \in DOMAIN energy_state.member_states |->
                 LET ms == energy_state.member_states[i]
                 IN  IF ms.member_id \in Range(ids)
                     THEN MemberState(ms.member_id, U_new[last(ms.member_id)],
                                      ms.axial_force, ms.deformation,
                                      ms.failed)
                     ELSE ms] :
              U_new \in
                  {[i \in DOMAIN U |->
                       Max(U[i] + dt * (SumSeq([j \in DOMAIN U |->
                                                   alpha[i][j] * U[j]])
                                        - SumSeq(alpha[i]) * U[i]), 0)] :
                   alpha \in {_build_coupling_matrix(frame, ids)}}})

\* mutant: the redistributed state is stamped with the next step
redistribute_next_step(frame, energy_state, dt) ==
    Only({EnergyState(energy_state.step + 1,
                      SumSeq([i \in DOMAIN new_member_states |->
                                 new_member_states[i].strain_energy]),
                      new_member_states) :
          new_member_states \in
              {RedistributedStates(frame, energy_state, dt)}})

\* mutant: the replacement state takes the failed flags from the frame
redistribute_refreshes_flags(frame, energy_state, dt) ==
    Only({EnergyState(energy_state.step,
                      SumSeq([i \in DOMAIN new_member_states |->
                                 new_member_states[i].strain_energy]),
                      [i \in DOMAIN new_member_states |->
                          [new_member_states[i] EXCEPT !.failed =
                              _get_member(frame, new_member_states[i]
                                                    .member_id).failed]]) :
          new_member_states \in
              {RedistributedStates(frame, energy_state, dt)}})

redistribute(frame, energy_state, dt) ==
    Only({EnergyState(energy_state.step,
                      SumSeq([i \in DOMAIN new_member_states |->
                                 new_member_states[i].strain_energy]),
                      new_member_states) :
          new_member_states \in
              {RedistributedStates(frame, energy_state, dt)}})

(***************************************************************************)
(* simulation/runner.py                                                    *)
(***************************************************************************)
VARIABLES frame, max_steps, collapse_method, collapse_threshold,
          collapse_zscore, energy_history, entropy_history, failed_sequence,
          previous_entropy, step, energy_state, newly_failed, result, pc,
          calls, failed_at, first_run

vars == <<frame, max_steps, collapse_method, collapse_threshold,
          collapse_zscore, energy_history, entropy_history, failed_sequence,
          previous_entropy, step, energy_state, newly_failed, result, pc,
          calls, failed_at, first_run>>

params == <<max_steps, collapse_method, collapse_threshold, collapse_zscore>>

redistribution_dt == 1

_detect(history, method, threshold, zscore) ==
    IF method = "zscore"
    THEN [raised |-> FALSE] @@ detect_collapse_zscore(history, zscore)
    ELSE IF method = "threshold"
    THEN [raised |-> FALSE] @@ detect_collapse_threshold(history, threshold)
    ELSE [raised |-> TRUE, collapsed |-> FALSE, step |-> None]

\* mutant: one iteration too many
InRangeInclusive(i, n) == 0 <= i /\ i <= n

\* mutant: one iteration too few
InRangeShort(i, n) == 0 <= i /\ i + 1 < n

\* for step in range(max_steps)
InRange(i, n) == 0 <= i /\ i < n

\* mutant: the redistributed state is appended
ReplaceLastAppends(history, es) == Append(history, es)

\* energy_history[-1] = energy_state
ReplaceLast(history, es) == [history EXCEPT ![Len(history)] = es]

\* if newly_failed:
FailuresOccurred(ids) == ids # <<>>

\* observation only: calls[f] lists the steps at which f was invoked, and
\* failed_at[j] is the step at which failed_sequence[j] was appended
Called(name) == [calls EXCEPT ![name] = Append(@, step)]

(* ---- the frames and configurations a run is started with ---- *)
\* frame_2d_simple: three collinear nodes, both ends pinned
Nodes2D == <<Node(0, 0, {0}), Node(1, 5, {}), Node(2, 10, {0})>>

Spans == {<<0, 1>>, <<1, 2>>, <<0, 2>>}

Materials == {Material("steel", 30, 1, sy) : sy \in {1, 400, 1000000}}

\* a load on the free midspan node and one on the left support
Loads2D == <<Load(0, 0, 600), Load(1, 0, -600)>>

\* up to MaxMembers members, listed from left to right by midspan
MemberLists ==
    UNION {{choice \in [1..n -> Spans \X Materials] :
               \A i \in 1..(n - 1) :
                   choice[i][1][1] + choice[i][1][2]
                      <= choice[i + 1][1][1] + choice[i + 1][1][2]} :
           n \in 0..MaxMembers}

\* ids in list order (ascending) or against it; the first member may have
\* been marked failed before the run
MemberLayouts ==
    {[ascending |-> TRUE, first_failed |-> FALSE],
     [ascending |-> FALSE, first_failed |-> FALSE],
     [ascending |-> TRUE, first_failed |-> TRUE]}

BuildMembers(choice, layout) ==
    [i \in DOMAIN choice |->
        Member(IF layout.ascending THEN i - 1 ELSE Len(choice) - i,
               choice[i][1][1], choice[i][1][2], choice[i][2],
               layout.first_failed /\ i = 1)]

Frames ==
    {FrameData("2D Simple Truss", Nodes2D, BuildMembers(choice, layout),
               Loads2D) :
        choice \in MemberLists, layout \in MemberLayouts}

Configs ==
    {[method |-> "zscore", threshold |-> -500, zscore |-> z] : z \in {1, 3}}
    \cup {[method |-> "threshold", threshold |-> t, zscore |-> 3] :
             t \in {-10, -500, -999}}
    \cup {[method |-> "exponential", threshold |-> -500, zscore |-> 3]}

\* before run is called: no frame has been passed in yet
Init ==
    /\ frame = FrameData("", <<>>, <<>>, <<>>)
    /\ max_steps = 0
    /\ collapse_method = "zscore"
    /\ collapse_threshold = -500
    /\ collapse_zscore = 3
    /\ energy_history = <<>>
    /\ entropy_history = <<>>
    /\ failed_sequence = <<>>
    /\ previous_entropy = 0
    /\ step = 0
    /\ energy_state = None
    /\ newly_failed = <<>>
    /\ result = None
    /\ pc = "idle"
    /\ calls = [solve |-> <<>>, compute_entropy |-> <<>>, _detect |-> <<>>,
                check_and_apply_failures |-> <<>>, redistribute |-> <<>>]
    /\ failed_at = <<>>
    /\ first_run = None

\* run(frame, max_steps, ..., collapse_method, collapse_threshold,
\* collapse_zscore) is called and sets up its empty histories
Run ==
    /\ pc = "idle"
    /\ frame' \in Frames
    /\ max_steps' \in {-1, 0, 1, MaxSteps}
    /\ \E c \in Configs :
          /\ collapse_method' = c.method
          /\ collapse_threshold' = c.threshold
          /\ collapse_zscore' = c.zscore
    /\ energy_history' = <<>>
    /\ entropy_history' = <<>>
    /\ failed_sequence' = <<>>
    /\ previous_entropy' = 0
    /\ pc' = "for"
    /\ UNCHANGED <<first_run, step, energy_state, newly_failed, result, calls,
                   failed_at>>

\* mutant: the previous entropy is never carried to the next step
SolveAndMeasureUnseeded ==
    /\ pc = "for"
    /\ InRange(step, max_steps)
    /\ \E es \in {solve(frame, step)} :
       \E entropy_record \in {compute(es, previous_entropy)} :
           /\ energy_state' = Some(es)
           /\ energy_history' = Append(energy_history, es)
           /\ entropy_history' = Append(entropy_history, entropy_record)
    /\ calls' = [calls EXCEPT !.solve = Append(@, step),
                              !.compute_entropy = Append(@, step)]
    /\ pc' = "detect"
    /\ UNCHANGED <<first_run, frame, params, failed_sequence, step,
                   newly_failed, result, failed_at, previous_entropy>>

\* steps 1 and 2: solve equilibrium, compute entropy, append both
SolveAndMeasure ==
    /\ pc = "for"
    /\ InRange(step, max_steps)
    /\ \E es \in {solve(frame, step)} :
       \E entropy_record \in {compute(es, previous_entropy)} :
           /\ energy_state' = Some(es)
           /\ energy_history' = Append(energy_history, es)
           /\ entropy_history' = Append(entropy_history, entropy_record)
           /\ previous_entropy' = entropy_record.entropy
    /\ calls' = [calls EXCEPT !.solve = Append(@, step),
                              !.compute_entropy = Append(@, step)]
    /\ pc' = "detect"
    /\ UNCHANGED <<first_run, frame, params, failed_sequence, step,
                   newly_failed, result, failed_at>>

Detection ==
    _detect(entropy_history, collapse_method, collapse_threshold,
            collapse_zscore)

\* step 3, the detector dispatch raises ValueError
DetectRaises ==
    /\ pc = "detect"
    /\ Detection.raised
    /\ pc' = "ValueError"
    /\ calls' = Called("_detect")
    /\ UNCHANGED <<first_run, frame, params, energy_history, entropy_history,
                   failed_sequence, previous_entropy, step, energy_state,
                   newly_failed, result, failed_at>>

\* mutant: the records appended in the flagged step are rolled back
DetectCollapsedRollback ==
    /\ pc = "detect"
    /\ ~Detection.raised
    /\ Detection.collapsed
    /\ result' = Some(SimulationResult(
                         frame.name,
                         SubSeq(energy_history, 1, Len(energy_history) - 1),
                         SubSeq(entropy_history, 1, Len(entropy_history) - 1),
                         TRUE, Detection.step, failed_sequence))
    /\ pc' = "Collapsed"
    /\ calls' = Called("_detect")
    /\ UNCHANGED <<first_run, frame, params, energy_history, entropy_history,
                   failed_sequence, previous_entropy, step, energy_state,
                   newly_failed, failed_at>>

\* step 3, the detector flags: return at once
DetectCollapsed ==
    /\ pc = "detect"
    /\ ~Detection.raised
    /\ Detection.collapsed
    /\ result' = Some(SimulationResult(frame.name, energy_history,
                                       entropy_history, TRUE, Detection.step,
                                       failed_sequence))
    /\ pc' = "Collapsed"
    /\ calls' = Called("_detect")
    /\ UNCHANGED <<first_run, frame, params, energy_history, entropy_history,
                   failed_sequence, previous_entropy, step, energy_state,
                   newly_failed, failed_at>>

\* step 3, the detector does not flag
DetectContinues ==
    /\ pc = "detect"
    /\ ~Detection.raised
    /\ ~Detection.collapsed
    /\ pc' = "failures"
    /\ calls' = Called("_detect")
    /\ UNCHANGED <<first_run, frame, params, energy_history, entropy_history,
                   failed_sequence, previous_entropy, step, energy_state,
                   newly_failed, result, failed_at>>

\* mutant: the newly failed ids come back in an arbitrary order
CheckFailuresAnyOrder ==
    /\ pc = "failures"
    /\ \E r \in {check_and_apply_failures(frame, energy_state[1])} :
       \E ids \in {o \in [DOMAIN r.newly_failed -> Range(r.newly_failed)] :
                       Range(o) = Range(r.newly_failed)} :
           /\ frame' = r.frame
           /\ newly_failed' = ids
           /\ failed_sequence' = failed_sequence \o ids
           /\ failed_at' = failed_at \o [i \in DOMAIN ids |-> step]
           /\ IF all_failed(r.frame)
              THEN /\ result' = Some(SimulationResult(
                                       frame.name, energy_history,
                                       entropy_history, TRUE, Some(step),
                                       failed_sequence \o ids))
                   /\ pc' = "AllFailed"
              ELSE /\ result' = result
                   /\ pc' = "redistribute"
    /\ calls' = Called("check_and_apply_failures")
    /\ UNCHANGED <<first_run, params, energy_history, entropy_history,
                   previous_entropy, step, energy_state>>

\* step 4: mark failures, extend the sequence, return when all have failed
CheckFailures ==
    /\ pc = "failures"
    /\ \E r \in {check_and_apply_failures(frame, energy_state[1])} :
           /\ frame' = r.frame
           /\ newly_failed' = r.newly_failed
           /\ failed_sequence' = failed_sequence \o r.newly_failed
           /\ failed_at' = failed_at \o [i \in DOMAIN r.newly_failed |-> step]
           /\ IF all_failed(r.frame)
              THEN /\ result' = Some(SimulationResult(
                                       frame.name, energy_history,
                                       entropy_history, TRUE, Some(step),
                                       failed_sequence \o r.newly_failed))
                   /\ pc' = "AllFailed"
              ELSE /\ result' = result
                   /\ pc' = "redistribute"
    /\ calls' = Called("check_and_apply_failures")
    /\ UNCHANGED <<first_run, params, energy_history, entropy_history,
                   previous_entropy, step, energy_state>>

\* mutant: redistribution drops the failed members from the frame
RedistributeIfFailedPrunes ==
    /\ pc = "redistribute"
    /\ IF FailuresOccurred(newly_failed)
       THEN \E es \in {redistribute(frame, energy_state[1],
                                      redistribution_dt)} :
                /\ energy_state' = Some(es)
                /\ energy_history' = ReplaceLast(energy_history, es)
                /\ calls' = Called("redistribute")
                /\ frame' = [frame EXCEPT !.members =
                                SelectSeq(frame.members,
                                          LAMBDA m : ~m.failed)]
       ELSE UNCHANGED <<energy_state, energy_history, calls, frame>>
    /\ step' = step + 1
    /\ pc' = "for"
    /\ UNCHANGED <<first_run, params, entropy_history, failed_sequence,
                   previous_entropy, newly_failed, result, failed_at>>

\* step 5: redistribute if failures occurred, then the next iteration
RedistributeIfFailed ==
    /\ pc = "redistribute"
    /\ IF FailuresOccurred(newly_failed)
       THEN \E es \in {redistribute(frame, energy_state[1],
                                      redistribution_dt)} :
                /\ energy_state' = Some(es)
                /\ energy_history' = ReplaceLast(energy_history, es)
                /\ calls' = Called("redistribute")
       ELSE UNCHANGED <<energy_state, energy_history, calls>>
    /\ step' = step + 1
    /\ pc' = "for"
    /\ UNCHANGED <<first_run, frame, params, entropy_history, failed_sequence,
                   previous_entropy, newly_failed, result, failed_at>>

\* the loop is exhausted
ReturnMaxSteps ==
    /\ pc = "for"
    /\ ~InRange(step, max_steps)
    /\ result' = Some(SimulationResult(frame.name, energy_history,
                                       entropy_history, FALSE, None,
                                       failed_sequence))
    /\ pc' = "MaxStepsReached"
    /\ UNCHANGED <<first_run, frame, params, energy_history, entropy_history,
                   failed_sequence, previous_entropy, step, energy_state,
                   newly_failed, calls, failed_at>>

Next ==
    \/ Run
    \/ SolveAndMeasure
    \/ DetectRaises
    \/ DetectCollapsed
    \/ DetectContinues
    \/ CheckFailures
    \/ RedistributeIfFailed
    \/ ReturnMaxSteps

Spec == Init /\ [][Next]_vars

\* the program is sequential and runs to completion
FairSpec == Spec /\ WF_vars(Next)

Returned == pc \in {"Collapsed", "AllFailed", "MaxStepsReached"}

TypeOK ==
    /\ pc \in {"idle", "for", "detect", "failures", "redistribute", "Collapsed",
               "AllFailed", "MaxStepsReached", "ValueError"}
    /\ Returned <=> result # None
    /\ Len(energy_history) = Len(entropy_history)

(***************************************************************************)
(* Properties of the step loop                                             *)
(***************************************************************************)
R == result[1]

Last(history) == history[Len(history)]

Recognized == collapse_method \in {"zscore", "threshold"}

EveryMemberFailed == \A i \in DOMAIN frame.members : frame.members[i].failed

\* the entropy of the step before step t (0.0 before the first step)
EntropyBefore(t) == IF t = 0 THEN 0 ELSE entropy_history[t].entropy

\* C1: with a recognized collapse_method and max_steps >= 1, run terminates
\* after at most max_steps iterations in exactly one of Collapsed (flag set,
\* step reported by the detector), AllFailed (flag set, current step) or
\* MaxStepsReached (flag clear, step None); collapse_step is non-null iff
\* collapse_detected.
C1_Outcomes ==
    (Recognized /\ max_steps >= 1) =>
        /\ Len(calls.solve) <= max_steps
        /\ pc # "ValueError"
        /\ pc = "Collapsed" =>
              /\ R.collapse_detected
              /\ Detection.collapsed
              /\ R.collapse_step = Detection.step
        /\ pc = "AllFailed" =>
              R.collapse_detected /\ R.collapse_step = Some(step)
        /\ pc = "MaxStepsReached" =>
              ~R.collapse_detected /\ R.collapse_step = None
        /\ Returned => (R.collapse_step # None <=> R.collapse_detected)

C1_RunTerminates ==
    /\ []C1_Outcomes
    /\ (pc = "for" /\ Recognized /\ max_steps >= 1) ~> Returned

C1_Witness ==
    /\ pc = "Collapsed"
    /\ collapse_method = "zscore"
    /\ R.collapse_step # Some(step)

\* C2: a member's failed flag is never reset, and a member id that entered
\* failed_sequence at step t is failed in energy_history[k] for every k > t.
C2_FailedLater ==
    \A j \in DOMAIN failed_sequence : \A k \in DOMAIN energy_history :
        (k - 1 > failed_at[j]) =>
            \A i \in DOMAIN energy_history[k].member_states :
                LET ms == energy_history[k].member_states[i]
                IN  ms.member_id = failed_sequence[j] => ms.failed

C2_FailureMonotonic ==
    /\ []C2_FailedLater
    /\ [][\A i \in DOMAIN frame.members :
             frame.members[i].failed => frame'.members[i].failed]_vars

C2_Witness ==
    /\ failed_sequence # <<>>
    /\ Len(energy_history) >= failed_at[1] + 3
    /\ ~EveryMemberFailed

\* C3: when the detector flags at step t, run returns in that step: no
\* failure evaluation and no redistribution at step t, no failed flag
\* changes, nothing is appended to failed_sequence, and the records appended
\* at step t are the last elements of the returned histories.
C3_AtCollapsed ==
    pc = "Collapsed" =>
        /\ R.collapse_detected
        /\ step \notin Range(calls.check_and_apply_failures)
        /\ step \notin Range(calls.redistribute)
        /\ step \notin Range(failed_at)
        /\ R.failed_sequence = failed_sequence
        /\ \A i \in DOMAIN frame.members :
              frame.members[i].failed
                 = Last(energy_history).member_states[i].failed
        /\ Len(R.energy_history) = step + 1
        /\ Len(R.entropy_history) = step + 1
        /\ Last(R.energy_history) = energy_state[1]
        /\ Last(R.energy_history).step = step
        /\ Last(R.entropy_history) = Last(entropy_history)
        /\ Last(R.entropy_history).step = step

C3_FlagReturnsAtOnce ==
    /\ []C3_AtCollapsed
    /\ [][(pc = "detect" /\ Recognized /\ Detection.collapsed) =>
             /\ pc' = "Collapsed"
             /\ frame' = frame
             /\ failed_sequence' = failed_sequence
             /\ energy_history' = energy_history
             /\ entropy_history' = entropy_history]_vars

C3_Witness ==
    /\ pc = "Collapsed"
    /\ collapse_method = "threshold"
    /\ failed_sequence # <<>>
    /\ ~EveryMemberFailed

\* C4: if every member is failed after the failure evaluation of step t,
\* run terminates at step t with collapse_detected, collapse_step = t, no
\* redistribution at step t and both histories of length t + 1.
C4_AtAllFailed ==
    /\ pc = "AllFailed" =>
          /\ R.collapse_detected
          /\ R.collapse_step = Some(step)
          /\ step \in Range(calls.check_and_apply_failures)
          /\ step \notin Range(calls.redistribute)
          /\ Len(R.energy_history) = step + 1
          /\ Len(R.entropy_history) = step + 1
    /\ pc = "redistribute" => ~EveryMemberFailed

C4_AllFailedTerminates ==
    /\ []C4_AtAllFailed
    /\ [][(pc = "failures" /\ EveryMemberFailed') => pc' = "AllFailed"]_vars

C4_Witness ==
    /\ pc = "AllFailed"
    /\ step >= 1
    /\ Len(failed_sequence) >= 2

\* C5: after a step with new failures redistribution replaces the last
\* energy state (same length) while the entropy record and the previous
\* entropy stay those of the pre-redistribution state; after a step without
\* new failures redistribution is not run and the energy state is the
\* solver's output.
C5_PreRedistribution ==
    /\ pc \in {"detect", "failures"} =>
          /\ Last(energy_history) = solve(frame, step)
          /\ Last(entropy_history)
                = compute(solve(frame, step), EntropyBefore(step))
          /\ previous_entropy = Last(entropy_history).entropy
    /\ pc = "redistribute" =>
          /\ Last(energy_history) = energy_state[1]
          /\ Last(entropy_history)
                = compute(energy_state[1], EntropyBefore(step))
    /\ (pc = "for" /\ step >= 1) =>
          /\ previous_entropy = Last(entropy_history).entropy
          /\ (step - 1 \notin Range(failed_at)) =>
                /\ step - 1 \notin Range(calls.redistribute)
                /\ Last(energy_history) = solve(frame, step - 1)

C5_ReplaceNotAppend ==
    /\ []C5_PreRedistribution
    /\ [][pc = "redistribute" =>
             /\ Len(energy_history') = Len(energy_history)
             /\ \A k \in 1..(Len(energy_history) - 1) :
                   energy_history'[k] = energy_history[k]
             /\ entropy_history' = entropy_history
             /\ previous_entropy' = previous_entropy
             /\ IF step \in Range(failed_at)
                THEN /\ step \in Range(calls'.redistribute)
                     /\ Last(energy_history')
                           = redistribute(frame, Last(energy_history),
                                          redistribution_dt)
                ELSE /\ step \notin Range(calls'.redistribute)
                     /\ Last(energy_history') = Last(energy_history)]_vars

C5_Witness ==
    /\ pc = "detect"
    /\ step >= 1
    /\ step - 1 \in Range(calls.redistribute)
    /\ compute(energy_history[step], EntropyBefore(step - 1))
          # entropy_history[step]

\* C6: when the loop is exhausted (the detector never flagged and the
\* members never were all failed), run returns collapse_detected = false,
\* collapse_step = None and histories of exactly max_steps elements.
C6_MaxStepsReached ==
    (pc = "MaxStepsReached" /\ max_steps >= 0) =>
        /\ ~R.collapse_detected
        /\ R.collapse_step = None
        /\ Len(R.energy_history) = max_steps
        /\ Len(R.entropy_history) = max_steps

C6_Witness ==
    /\ pc = "MaxStepsReached"
    /\ max_steps = MaxSteps
    /\ failed_sequence # <<>>

\* C7: in every returned result both histories have the same length and
\* the k-th energy state and the k-th entropy record carry step k (also
\* the energy states replaced by redistribution).
C7_StepIndices ==
    Returned =>
        /\ Len(R.energy_history) = Len(R.entropy_history)
        /\ \A k \in DOMAIN R.energy_history :
              /\ R.energy_history[k].step = k - 1
              /\ R.entropy_history[k].step = k - 1

C7_Witness ==
    /\ Returned
    /\ Len(R.energy_history) >= 3
    /\ 0 \in Range(calls.redistribute)

\* C8: with a collapse_method other than "zscore" or "threshold" run raises
\* a configuration error and returns no SimulationResult, for every frame
\* and every max_steps.
C8_UnknownMethodNeverReturns == ~Recognized => ~Returned

\* C9: when run raises the configuration error, no equilibrium solve and no
\* entropy computation has been performed and no history record exists.
C9_RejectedBeforeAnyStep ==
    pc = "ValueError" =>
        /\ calls.solve = <<>>
        /\ calls.compute_entropy = <<>>
        /\ energy_history = <<>>
        /\ entropy_history = <<>>

\* C10: run with max_steps <= 0 raises and returns no SimulationResult.
C10_NonPositiveMaxStepsRejected == max_steps <= 0 => result = None

(***************************************************************************)
(* The detectors and the entropy computation called on their own           *)
(***************************************************************************)
MaxHistory == 6

\* delta_entropy values in millinats
DeltaValues == {-700, -500, 0}

\* histories of up to MaxHistory records; the step fields count up from the
\* step of the first record
Histories ==
    UNION {{[k \in 1..n |-> EntropyRecord(first + k - 1, 0, d[k], <<>>)] :
               d \in [1..n -> DeltaValues], first \in {0, 3}} :
           n \in 0..MaxHistory}

\* member states as the solver leaves them: a failed member has no energy
MemberStateLists ==
    UNION {{[i \in 1..n |-> MemberState(i - 1, c[i][1], 0, 0, c[i][2])] :
               c \in [1..n -> {<<0, FALSE>>, <<100, FALSE>>, <<300, FALSE>>,
                               <<0, TRUE>>}]} :
           n \in 0..MaxMembers}

EnergyStates ==
    {EnergyState(1, SumSeq([i \in DOMAIN ms |-> ms[i].strain_energy]), ms) :
        ms \in MemberStateLists}

\* frames for redistribute: as many members as the energy state has entries,
\* with ids in list order; E is 5 or 30, and only the frames are kept whose
\* stiffnesses EA/L and harmonic means are whole numbers, so that the
\* integer quotients of the model are the exact values
CallFrames(n) ==
    {f \in {FrameData("2D Simple Truss", Nodes2D,
                      [i \in 1..n |->
                          Member(i - 1, choice[i][1][1], choice[i][1][2],
                                 Material("steel", choice[i][2], 1, 400),
                                 FALSE)],
                      Loads2D) :
               choice \in [1..n -> Spans \X {5, 30}]} :
        \A i, j \in DOMAIN f.members :
            LET m_i == f.members[i]
                m_j == f.members[j]
                k_i == _axial_stiffness(m_i, f)
                k_j == _axial_stiffness(m_j, f)
            IN  /\ (m_i.material.E * m_i.material.A)
                      % _member_length(m_i, f) = 0
                /\ (2 * k_i * k_j) % (k_i + k_j) = 0}

NoFrame == FrameData("", <<>>, <<>>, <<>>)

CallInputs ==
    {[pc |-> "call detect_collapse_threshold", entropy_history |-> h,
      collapse_threshold |-> t, collapse_zscore |-> 3, energy_state |-> None,
      previous_entropy |-> 0, frame |-> NoFrame] :
        h \in Histories, t \in {-500, -600}}
    \cup {[pc |-> "call detect_collapse_zscore", entropy_history |-> h,
           collapse_threshold |-> -500, collapse_zscore |-> z,
           energy_state |-> None, previous_entropy |-> 0,
           frame |-> NoFrame] :
             h \in Histories, z \in {1, 2}}
    \cup {[pc |-> "call compute", entropy_history |-> <<>>,
           collapse_threshold |-> -500, collapse_zscore |-> 3,
           energy_state |-> Some(es), previous_entropy |-> prev,
           frame |-> NoFrame] :
             es \in EnergyStates, prev \in {0, 693}}
    \cup {[pc |-> "call localization_index",
           entropy_history |-> <<compute(es, 0)>>,
           collapse_threshold |-> -500, collapse_zscore |-> 3,
           energy_state |-> None, previous_entropy |-> 0,
           frame |-> NoFrame] :
             es \in EnergyStates}
    \cup UNION {{[pc |-> "call redistribute", entropy_history |-> <<>>,
                  collapse_threshold |-> -500, collapse_zscore |-> 3,
                  energy_state |-> Some(es), previous_entropy |-> 0,
                  frame |-> f] :
                    f \in CallFrames(Len(es.member_states))} :
                es \in EnergyStates}

\* one function is about to be called with its arguments
CallInit ==
    /\ max_steps = 0
    /\ collapse_method = "zscore"
    /\ energy_history = <<>>
    /\ failed_sequence = <<>>
    /\ step = 0
    /\ newly_failed = <<>>
    /\ result = None
    /\ calls = [solve |-> <<>>, compute_entropy |-> <<>>, _detect |-> <<>>,
                check_and_apply_failures |-> <<>>, redistribute |-> <<>>]
    /\ failed_at = <<>>
    /\ first_run = None
    /\ \E c \in CallInputs :
          /\ pc = c.pc
          /\ frame = c.frame
          /\ entropy_history = c.entropy_history
          /\ collapse_threshold = c.collapse_threshold
          /\ collapse_zscore = c.collapse_zscore
          /\ energy_state = c.energy_state
          /\ previous_entropy = c.previous_entropy

ThresholdCall ==
    /\ pc = "call detect_collapse_threshold"
    /\ result' = Some(detect_collapse_threshold(entropy_history,
                                                collapse_threshold))
    /\ pc' = "ret detect_collapse_threshold"
    /\ UNCHANGED <<first_run, frame, params, energy_history, entropy_history,
                   failed_sequence, previous_entropy, step, energy_state,
                   newly_failed, calls, failed_at>>

ZscoreCall ==
    /\ pc = "call detect_collapse_zscore"
    /\ result' = Some(detect_collapse_zscore(entropy_history, collapse_zscore))
    /\ pc' = "ret detect_collapse_zscore"
    /\ UNCHANGED <<first_run, frame, params, energy_history, entropy_history,
                   failed_sequence, previous_entropy, step, energy_state,
                   newly_failed, calls, failed_at>>

ComputeCall ==
    /\ pc = "call compute"
    /\ result' = Some(compute(energy_state[1], previous_entropy))
    /\ pc' = "ret compute"
    /\ UNCHANGED <<first_run, frame, params, energy_history, entropy_history,
                   failed_sequence, previous_entropy, step, energy_state,
                   newly_failed, calls, failed_at>>

\* the record passed in is the one entry of entropy_history
LocalizationIndexCall ==
    /\ pc = "call localization_index"
    /\ result' = Some(localization_index(entropy_history[1]))
    /\ pc' = "ret localization_index"
    /\ UNCHANGED <<first_run, frame, params, energy_history, entropy_history,
                   failed_sequence, previous_entropy, step, energy_state,
                   newly_failed, calls, failed_at>>

\* dt is left at its default, 1.0
RedistributeCall ==
    /\ pc = "call redistribute"
    /\ result' = Some(redistribute(frame, energy_state[1], 1))
    /\ pc' = "ret redistribute"
    /\ UNCHANGED <<first_run, frame, params, energy_history, entropy_history,
                   failed_sequence, previous_entropy, step, energy_state,
                   newly_failed, calls, failed_at>>

CallNext ==
    \/ ThresholdCall
    \/ ZscoreCall
    \/ ComputeCall
    \/ LocalizationIndexCall
    \/ RedistributeCall

CallSpec == CallInit /\ [][CallNext]_vars

\* C11: detect_collapse_threshold returns (True, s) with s the step of the
\* first record in history order whose delta_entropy is strictly below the
\* threshold, and (False, None) when no record is strictly below it; a
\* record whose delta_entropy equals the threshold does not flag.
C11_ThresholdFirstBelow ==
    pc = "ret detect_collapse_threshold" =>
        IF \E k \in DOMAIN entropy_history :
              entropy_history[k].delta_entropy < collapse_threshold
        THEN /\ R.collapsed
             /\ \E k \in DOMAIN entropy_history :
                   /\ entropy_history[k].delta_entropy < collapse_threshold
                   /\ \A j \in 1..(k - 1) :
                         entropy_history[j].delta_entropy
                            >= collapse_threshold
                   /\ R.step = Some(entropy_history[k].step)
        ELSE /\ ~R.collapsed
             /\ R.step = None

C11_Witness ==
    /\ pc = "ret detect_collapse_threshold"
    /\ Len(entropy_history) >= 3
    /\ entropy_history[1].delta_entropy = collapse_threshold
    /\ entropy_history[3].delta_entropy < collapse_threshold
    /\ R.step = Some(5)

\* C12: detect_collapse_zscore never flags with fewer than min_history
\* records, never flags when the standard deviation of delta_entropy over
\* the whole history is zero, and otherwise returns the step of the first
\* record whose z = (delta_entropy - mean)/std is strictly below
\* -z_threshold, or (False, None) if there is none.
C12_ZscoreFirstOutlier ==
    pc = "ret detect_collapse_zscore" =>
        LET n == Len(entropy_history)
            delta(k) == entropy_history[k].delta_entropy
            sum == SumSeq([k \in 1..n |-> delta(k)])
            squares == SumSeq([k \in 1..n |-> delta(k) * delta(k)])
            \* n * n * variance
            spread == n * squares - sum * sum
            \* z < -z_threshold, both sides multiplied by n * std
            Outlier(k) ==
                /\ sum - n * delta(k) > 0
                /\ (sum - n * delta(k)) * (sum - n * delta(k))
                      > collapse_zscore * collapse_zscore * spread
        IN  IF n < min_history \/ spread = 0
            THEN ~R.collapsed /\ R.step = None
            ELSE IF \E k \in 1..n : Outlier(k)
            THEN /\ R.collapsed
                 /\ \E k \in 1..n :
                       /\ Outlier(k)
                       /\ \A j \in 1..(k - 1) : ~Outlier(j)
                       /\ R.step = Some(entropy_history[k].step)
            ELSE ~R.collapsed /\ R.step = None

C12_Witness ==
    /\ pc = "ret detect_collapse_zscore"
    /\ Len(entropy_history) = MaxHistory
    /\ collapse_zscore = 2
    /\ R.collapsed
    /\ R.step = Some(4)

\* C13: whenever the total strain energy over the non-failed members is
\* zero (every active member has zero energy, or there is no active member)
\* compute returns entropy 0 and delta_entropy = -previous_entropy.
C13_ZeroTotalDegenerate ==
    pc = "ret compute" =>
        LET states == energy_state[1].member_states
            active_total ==
                SumSeq([i \in DOMAIN states |->
                           IF states[i].failed THEN 0
                           ELSE states[i].strain_energy])
        IN  active_total = 0 =>
                /\ R.entropy = 0
                /\ R.delta_entropy = 0 - previous_entropy

\* C14: for every entropy record k of a run, delta_entropy_k = S_k - S_(k-1)
\* with 0 before the first step; so delta_entropy_0 = S_0 and the sum of all
\* delta_entropy values equals the entropy of the last record.
C14_DeltaIsDifference ==
    /\ \A k \in DOMAIN entropy_history :
          entropy_history[k].delta_entropy
             = entropy_history[k].entropy - EntropyBefore(k - 1)
    /\ entropy_history # <<>> =>
          /\ entropy_history[1].delta_entropy = entropy_history[1].entropy
          /\ SumSeq([k \in DOMAIN entropy_history |->
                        entropy_history[k].delta_entropy])
                = Last(entropy_history).entropy

C14_Witness ==
    /\ Len(entropy_history) >= 3
    /\ entropy_history[1].entropy > 0
    /\ entropy_history[2].delta_entropy < 0
    /\ entropy_history[3].delta_entropy = 0

\* C15: check_and_apply_failures returns the ids of the newly failed members
\* in ascending member-id order, whatever the order in which the frame lists
\* its members.
C15_NewlyFailedAscending ==
    \A i, j \in DOMAIN newly_failed :
        i < j => newly_failed[i] < newly_failed[j]

\* C16: when redistribution runs at step t, every member whose failed flag
\* is set in the frame (the members that failed at step t included) is left
\* out of the diffusion: its energy entry in the resulting EnergyState is
\* zero and untouched.
C16_FailedExcluded ==
    [][(pc = "redistribute" /\ FailuresOccurred(newly_failed)) =>
          \A i \in DOMAIN frame.members :
              frame.members[i].failed =>
                  \A k \in DOMAIN Last(energy_history).member_states :
                      LET before == Last(energy_history).member_states[k]
                          after == Last(energy_history').member_states[k]
                      IN  before.member_id = frame.members[i].id =>
                              /\ after.strain_energy = 0
                              /\ after = before]_vars

\* C17: in every EnergyState of the energy history (solver output or
\* post-redistribution replacement) every strain_energy is >= 0 and
\* total_energy is the sum of the member strain energies of that state.
C17_EnergyConsistent ==
    \A k \in DOMAIN energy_history :
        LET states == energy_history[k].member_states
        IN  /\ \A i \in DOMAIN states : states[i].strain_energy >= 0
            /\ energy_history[k].total_energy
                  = SumSeq([i \in DOMAIN states |-> states[i].strain_energy])

\* a replaced state: the energy has moved to a member that carries no force
C17_Witness ==
    /\ 0 \in Range(calls.redistribute)
    /\ \E i \in DOMAIN energy_history[1].member_states :
          LET ms == energy_history[1].member_states[i]
          IN  ms.strain_energy > 0 /\ ms.axial_force = 0

\* C18: once a member is failed, in every subsequent step it adds nothing
\* to the assembled global stiffness matrix, the solver reports it with
\* strain_energy = 0, axial_force = 0, deformation = 0 and failed = true, and
\* the entropy record of that step has no (member id, fraction) pair for it.
C18_FailedInHistory ==
    /\ assemble_global_stiffness(frame)
          = assemble_global_stiffness(
               [frame EXCEPT !.members =
                   SelectSeq(frame.members, LAMBDA m : ~m.failed)])
    /\ \A j \in DOMAIN failed_sequence : \A k \in DOMAIN energy_history :
          (k - 1 > failed_at[j]) =>
              /\ \A i \in DOMAIN energy_history[k].member_states :
                    LET ms == energy_history[k].member_states[i]
                    IN  ms.member_id = failed_sequence[j] =>
                            ms = MemberState(ms.member_id, 0, 0, 0, TRUE)
              /\ \A i \in DOMAIN entropy_history[k].energy_distribution :
                    entropy_history[k].energy_distribution[i][1]
                       # failed_sequence[j]

C18_FailedContributesNothing ==
    /\ []C18_FailedInHistory
    /\ [][(pc = "for" /\ pc' = "detect") =>
             \A i \in DOMAIN frame.members :
                 frame.members[i].failed =>
                     /\ Last(energy_history').member_states[i]
                           = MemberState(frame.members[i].id, 0, 0, 0, TRUE)
                     /\ \A n \in DOMAIN
                               Last(entropy_history').energy_distribution :
                           Last(entropy_history').energy_distribution[n][1]
                              # frame.members[i].id]_vars

C18_Witness ==
    /\ failed_sequence # <<>>
    /\ Len(energy_history) >= failed_at[1] + 3
    /\ Last(entropy_history).energy_distribution # <<>>
    /\ Last(energy_history).total_energy > 0

\* C19: after the frame is built a run changes nothing in it except
\* Member.failed flags, and only check_and_apply_failures writes them:
\* solve, entropy computation, detection and redistribution leave every
\* node, load, material, member endpoint and failed flag unchanged.
C19_OnlyFailedFlags ==
    [][pc # "idle" =>
          /\ frame'.name = frame.name
          /\ frame'.nodes = frame.nodes
          /\ frame'.loads = frame.loads
          /\ Len(frame'.members) = Len(frame.members)
          /\ \A i \in DOMAIN frame.members :
                [frame'.members[i] EXCEPT !.failed = frame.members[i].failed]
                   = frame.members[i]
          /\ pc # "failures" => frame' = frame]_vars

C19_Witness ==
    /\ pc = "for"
    /\ step >= 2
    /\ 0 \in Range(calls.redistribute)
    /\ \E i \in DOMAIN frame.members : frame.members[i].failed
    /\ \E i \in DOMAIN frame.members : ~frame.members[i].failed

(***************************************************************************)
(* A second run from an equal frame with the same configuration            *)
(***************************************************************************)
\* run has returned once and is called again: the result of the first run
\* is kept, and the frame is equal to the one the first run started from
\* (the failed flags written by the first run are cleared)
RunAgain ==
    /\ Returned
    /\ first_run = None
    /\ first_run' = result
    /\ frame' = [frame EXCEPT !.members =
                    [i \in DOMAIN frame.members |->
                        [frame.members[i] EXCEPT !.failed =
                            /\ frame.members[i].failed
                            /\ frame.members[i].id
                                  \notin Range(failed_sequence)]]]
    /\ energy_history' = <<>>
    /\ entropy_history' = <<>>
    /\ failed_sequence' = <<>>
    /\ previous_entropy' = 0
    /\ step' = 0
    /\ energy_state' = None
    /\ newly_failed' = <<>>
    /\ result' = None
    /\ pc' = "for"
    /\ calls' = [solve |-> <<>>, compute_entropy |-> <<>>, _detect |-> <<>>,
                 check_and_apply_failures |-> <<>>, redistribute |-> <<>>]
    /\ failed_at' = <<>>
    /\ UNCHANGED params

RerunNext ==
    \/ Next
    \/ RunAgain

RerunSpec == Init /\ [][RerunNext]_vars

C21_NoFailureNoCollapse ==
    (/\ Returned
     /\ collapse_method = "zscore"
     /\ collapse_zscore = 3
     /\ max_steps >= 1
     /\ failed_sequence = <<>>) =>
        /\ ~R.collapse_detected
        /\ R.failed_sequence = <<>>
        /\ Len(R.energy_history) = max_steps

\* C21, amended: the same, for a frame with at least one member that is not
\* failed (a frame without members, or whose members all carry the failed
\* flag before the run, ends at step 0 with collapse_detected = true).
C21_NoFailureNoCollapseActive ==
    (/\ Returned
     /\ collapse_method = "zscore"
     /\ collapse_zscore = 3
     /\ max_steps >= 1
     /\ failed_sequence = <<>>
     /\ ~EveryMemberFailed) =>
        /\ pc = "MaxStepsReached"
        /\ ~R.collapse_detected
        /\ R.failed_sequence = <<>>
        /\ Len(R.energy_history) = max_steps

C21_Witness ==
    /\ pc = "MaxStepsReached"
    /\ collapse_method = "zscore"
    /\ collapse_zscore = 3
    /\ failed_sequence = <<>>
    /\ Len(R.entropy_history) >= min_history
    /\ R.entropy_history[1].entropy > 0

\* the 3-node, 2-member span as frame_2d_simple builds it: left span, right
\* span, no member failed
IsSimpleSpan ==
    /\ Len(frame.members) = 2
    /\ <<frame.members[1].node_start, frame.members[1].node_end>> = <<0, 1>>
    /\ <<frame.members[2].node_start, frame.members[2].node_end>> = <<1, 2>>
    /\ \A i \in DOMAIN frame.members : ~frame.members[i].failed

C23_RestrainedDofs ==
    pc # "idle" =>
        \A K \in {apply_boundary_conditions(assemble_global_stiffness(frame),
                                            frame)} :
        \A F \in {apply_boundary_conditions_to_force(
                     _build_load_vector(frame, 1), frame)} :
        \A u \in {_solve_system(K, F)} :
            \A n \in DOMAIN frame.nodes : \A dof \in frame.nodes[n].fixed_dofs :
                LET d == GlobalDof(frame.nodes[n].id, dof)
                IN  /\ \A e \in DOMAIN K :
                          /\ K[d][e] = (IF e = d THEN 1 ELSE 0)
                          /\ K[e][d] = (IF e = d THEN 1 ELSE 0)
                    /\ F[d] = 0
                    /\ u[d] = 0

\* the solver has run on a frame that is loaded at a restrained DOF
C23_Witness ==
    /\ pc = "detect"
    /\ \E i \in DOMAIN frame.loads :
          /\ frame.loads[i].magnitude # 0
          /\ GlobalDof(frame.loads[i].node_id, frame.loads[i].dof)
                \in FixedDofs(frame)
    /\ energy_state[1].total_energy > 0

\* C24: after redistribution the total energy has changed by less than 5%:
\* for an energy state with positive total energy passed to redistribute
\* after failure marking, |total_after - total_before| / total_before < 0.05.
C24_RedistributionDrift ==
    [][(/\ pc = "redistribute"
        /\ FailuresOccurred(newly_failed)
        /\ energy_state[1].total_energy > 0) =>
          20 * Abs(energy_state'[1].total_energy
                   - energy_state[1].total_energy)
             < energy_state[1].total_energy]_vars

\* C25: localization_index returns a value in [0,1] for every entropy
\* record; it returns 0 for a uniform distribution over the active members
\* and 1 when all energy is concentrated in a single member.
C25_LocalizationIndexRange ==
    pc = "ret localization_index" =>
        LET dist == entropy_history[1].energy_distribution
        IN  /\ 0 <= R /\ R <= 1000
            /\ (/\ dist # <<>>
                /\ \A i, j \in DOMAIN dist : dist[i][2] = dist[j][2]) => R = 0
            /\ (\E i \in DOMAIN dist :
                   /\ dist[i][2] = 1000
                   /\ \A j \in DOMAIN dist \ {i} : dist[j][2] = 0) => R = 1000

\* C26: failed_sequence contains no member id twice; its set of ids is the
\* set of members whose failed flag went from false to true during the run,
\* and the ids of members that failed at an earlier step precede those of
\* members that failed at a later step.  Stated step by step: after the run
\* has started, a step extends failed_sequence by exactly the ids whose flag
\* it changes from false to true, no flag is ever cleared, and the steps at
\* which the entries were added never decrease along the sequence.
C26_FailedSequence ==
    [][pc # "idle" =>
          /\ \A i, j \in DOMAIN failed_sequence' :
                /\ i # j => failed_sequence'[i] # failed_sequence'[j]
                /\ i < j => failed_at'[i] <= failed_at'[j]
          /\ Len(failed_sequence') >= Len(failed_sequence)
          /\ SubSeq(failed_sequence', 1, Len(failed_sequence))
                = failed_sequence
          /\ {failed_sequence'[k] :
                 k \in (Len(failed_sequence) + 1)..Len(failed_sequence')}
                = {frame.members[i].id : i \in
                      {k \in DOMAIN frame.members :
                          ~frame.members[k].failed /\ frame'.members[k].failed}}
          /\ \A i \in DOMAIN frame.members :
                frame.members[i].failed => frame'.members[i].failed]_vars

\* two members have failed, at different steps
C26_Witness ==
    /\ Returned
    /\ Len(failed_sequence) = 2
    /\ failed_at[1] < failed_at[2]
    /\ R.failed_sequence = failed_sequence

\* C27: with collapse_method = "threshold" and a negative collapse_threshold,
\* whenever run ends because the detector flagged, collapse_step is the index
\* of the last record of the histories (the step at which run stopped) and is
\* at least 1: the record of step 0 has delta_entropy = S_0 >= 0 and cannot
\* flag, and a record that qualifies is flagged in the step it is appended.
C27_FlaggedStepIsLast ==
    (/\ pc = "Collapsed"
     /\ collapse_method = "threshold"
     /\ collapse_threshold < 0) =>
        /\ R.collapse_step = Some(Len(entropy_history) - 1)
        /\ R.collapse_step = Some(Len(energy_history) - 1)
        /\ R.collapse_step = Some(step)
        /\ R.collapse_step = Some(Last(entropy_history).step)
        /\ R.collapse_step[1] >= 1
        /\ entropy_history[1].delta_entropy >= 0
        /\ \A k \in 1..(Len(entropy_history) - 1) :
              entropy_history[k].delta_entropy >= collapse_threshold

\* the entropy drops by ln 2 when one of two members has failed
C27_Witness ==
    /\ pc = "Collapsed"
    /\ collapse_method = "threshold"
    /\ collapse_threshold = -500
    /\ Len(entropy_history) = 2
    /\ entropy_history[1].delta_entropy = 693
    /\ entropy_history[2].delta_entropy = -693
    /\ R.collapse_step = Some(1)

C29_OneSolutionPerCall ==
    [][pc = "failures" =>
          \A u \in {Displacements(frame)} :
          \A i \in DOMAIN energy_state[1].member_states :
              LET ms == energy_state[1].member_states[i]
                  member == _get_member(frame, ms.member_id)
              IN  /\ ms.member_id \in Range(newly_failed') <=>
                        /\ ~ms.failed
                        /\ _combined_stress(member, u, frame)
                              >= member.material.sigma_y
                  /\ ms.member_id \in Range(newly_failed') =>
                        _get_member(frame', ms.member_id).failed]_vars

\* one member has been marked, and another one, left standing, would have
\* been marked too had the frame been solved again without the first
C29_Witness ==
    /\ pc = "redistribute"
    /\ Len(newly_failed) = 1
    /\ \E i \in DOMAIN frame.members :
          /\ ~frame.members[i].failed
          /\ _combined_stress(frame.members[i], Displacements(frame), frame)
                >= frame.members[i].material.sigma_y

\* the energies of the participants after the Euler step, before clipping
Unclipped(alpha, U, dt) ==
    [i \in DOMAIN U |->
        U[i] + dt * (SumSeq([j \in DOMAIN U |-> alpha[i][j] * U[j]])
                     - SumSeq(alpha[i]) * U[i])]

\* C30: the coupling matrix built by redistribute is symmetric with a zero
\* diagonal, so the explicit-Euler step conserves the total energy of the
\* participating members exactly whenever no entry is clipped, and because
\* clipping only raises negative entries to zero the total energy after
\* redistribute is never lower than before.
C30_CouplingConserves ==
    pc = "ret redistribute" =>
        LET es == energy_state[1]
            active == SelectSeq(es.member_states, IsActiveState)
            ids == [i \in DOMAIN active |-> active[i].member_id]
            U == [i \in DOMAIN active |-> active[i].strain_energy]
        IN  \A alpha \in {_build_coupling_matrix(frame, ids)} :
            \A stepped \in {Unclipped(alpha, U, 1)} :
                /\ \A i, j \in DOMAIN ids :
                      /\ alpha[i][j] = alpha[j][i]
                      /\ alpha[i][i] = 0
                /\ SumSeq(stepped) = SumSeq(U)
                /\ (\A i \in DOMAIN stepped : stepped[i] >= 0) =>
                      /\ R.total_energy = es.total_energy
                      /\ \A k \in DOMAIN R.member_states :
                            \A i \in DOMAIN ids :
                                R.member_states[k].member_id = ids[i] =>
                                    R.member_states[k].strain_energy
                                       = stepped[i]
                /\ R.total_energy >= es.total_energy
                /\ R.total_energy - es.total_energy
                      = SumSeq([i \in DOMAIN stepped |->
                                   Max(0 - stepped[i], 0)])

\* two coupled members of unit stiffness exchange their unequal energies and
\* nothing is clipped
C30_Witness ==
    /\ pc = "ret redistribute"
    /\ R.member_states # energy_state[1].member_states
    /\ R.total_energy = energy_state[1].total_energy
    /\ R.total_energy > 0

====
